---- MODULE Spec2Model ----
(***************************************************************************)
(* Model of src/src/publish_episode.py: one publish call (main) run step   *)
(* by step against the remote object store (R2), the local catalog file    *)
(* data/episodes.json and the local output directories.                    *)
(*                                                                         *)
(* Strings are sequences of one-character strings; pubdate_iso strings are *)
(* sequences of character codes, so that Python's string comparison (by    *)
(* code point) is what the sort uses.                                      *)
(***************************************************************************)
EXTENDS Integers, Sequences, FiniteSets, TLC

(***************************************************************************)
(* Bounds of the model.                                                    *)
(***************************************************************************)
\* publish calls started in one behaviour
MaxCalls == 3
\* largest --keep value tried (KEEP_N_DEFAULT is 30 in the source)
MaxKeep == 2
\* the clock's seconds are 0..MaxSec
MaxSec == 1
\* the clock's microsecond field is 0..MaxUsec (0 is "exactly on the second")
MaxUsec == 1
\* calls of an external service (put_object, delete_object, head_object of
\* an existing object, ffmpeg) that fail in one behaviour
MaxFaults == 1
\* publish calls started on a catalog file found on disk (SpecLoad)
MaxLoadCalls == 2
\* titles given to slugify (SpecSlug): at most MaxPrefix characters, then a
\* run of one letter, then at most MaxSuffix characters; the run is empty or
\* of a length around max_len, up to MaxOver beyond it
MaxPrefix == 1
MaxSuffix == 2
MaxOver == 1

(***************************************************************************)
(* Program constants.                                                      *)
(***************************************************************************)
\* slugify(s, max_len=120)
SLUG_MAX_LEN == 120
\* find_mp3_for_title: clean_title[:100]
CLEAN_TITLE_LEN == 100
\* code points of the characters of a pubdate_iso string
ORD_DOT == 46
ORD_ZERO == 48
ORD_Z == 90

ARTWORK_KEY == <<"artwork/podcast-cover.png", <<>>>>
INDEX_KEY == <<"index.html", <<>>>>
FEED_KEY == <<"feed.xml", <<>>>>
DEFAULT_DESCRIPTION == "Audio narration of the research paper."

(***************************************************************************)
(* Characters: the classes the regular expressions of slugify and          *)
(* find_mp3_for_title distinguish.                                         *)
(***************************************************************************)
LowerLetters == {"a", "b", "c", "d", "e", "i", "o", "p", "s"}
UpperLetters == {"A", "B", "C"}
Digits == {"1", "2"}
\* a letter outside ASCII, here U+211D (double-struck capital R): \w matches
\* it, as it matches every Unicode letter and digit of a str pattern, and
\* str.lower() leaves it as it is, because it has no lower-case form
OtherLetters == {"U+211D"}
\* \w of Python's re: letters, digits and the underscore
WordChars == LowerLetters \cup UpperLetters \cup Digits \cup {"_"} \cup OtherLetters
\* \s
SpaceChars == {" "}
Punctuation == {"!", ":"}
Chars == WordChars \cup SpaceChars \cup {"-"} \cup Punctuation

\* str.lower() on one character
LowerChar(c) ==
    CASE c = "A" -> "a"
      [] c = "B" -> "b"
      [] c = "C" -> "c"
      [] OTHER -> c

\* str.lower()
Lower(s) == [i \in 1..Len(s) |-> LowerChar(s[i])]

\* the longest prefix / suffix of s whose characters are all in cs is removed
RECURSIVE LStrip(_, _)
LStrip(s, cs) ==
    IF s # <<>> /\ Head(s) \in cs THEN LStrip(Tail(s), cs) ELSE s

RECURSIVE RStrip(_, _)
RStrip(s, cs) ==
    IF s # <<>> /\ s[Len(s)] \in cs THEN RStrip(SubSeq(s, 1, Len(s) - 1), cs) ELSE s

\* str.strip(chars)
Strip(s, cs) == RStrip(LStrip(s, cs), cs)

\* re.sub(r"[^\w\s-]", "", s): drop punctuation
DropPunctuation(s) ==
    SelectSeq(s, LAMBDA c : c \in WordChars \cup SpaceChars \cup {"-"})

\* re.sub(r"[\s_-]+", "-", s): each maximal run of space, underscore, hyphen
\* becomes one hyphen (the first character of the run is kept, as a hyphen)
CollapseRuns(s) ==
    LET seps == SpaceChars \cup {"_", "-"}
        first == SelectSeq([i \in 1..Len(s) |-> i],
                           LAMBDA i : s[i] \notin seps \/ i = 1 \/ s[i - 1] \notin seps)
    IN  [k \in 1..Len(first) |-> IF s[first[k]] \in seps THEN "-" ELSE s[first[k]]]

\* s[:n] for n >= 0
Take(s, n) == SubSeq(s, 1, IF n < Len(s) THEN n ELSE Len(s))

\* slugify without the .rstrip("-") after the cut
slugify_cut_only(s, max_len) ==
    LET s4 == Strip(CollapseRuns(DropPunctuation(Lower(Strip(s, SpaceChars)))), {"-"})
        s5 == Take(s4, max_len)
    IN  IF s5 = <<>> THEN <<"e", "p", "i", "s", "o", "d", "e">> ELSE s5

slugify(s, max_len) ==
    LET s1 == Lower(Strip(s, SpaceChars))
        s2 == DropPunctuation(s1)
        s3 == CollapseRuns(s2)
        s4 == Strip(s3, {"-"})
        s5 == IF Len(s4) > max_len THEN RStrip(Take(s4, max_len), {"-"}) ELSE s4
    IN  IF s5 = <<>> THEN <<"e", "p", "i", "s", "o", "d", "e">> ELSE s5

\* find_mp3_for_title: the file name's stem, from the title
CleanTitle(title) == Take(DropPunctuation(title), CLEAN_TITLE_LEN)

(***************************************************************************)
(* Time.  A datetime is <<sec, usec>>.  The fields of an ISO string before *)
(* the (optional) fraction are zero-padded and of fixed width, so they are *)
(* modelled by one digit for the second; the six-digit microsecond field   *)
(* by one digit.                                                           *)
(***************************************************************************)
Times == (0..MaxSec) \X (0..MaxUsec)

\* chronological order of datetimes
TimeLeq(a, b) == a[1] < b[1] \/ (a[1] = b[1] /\ a[2] <= b[2])

\* now.isoformat().replace("+00:00", "Z"): isoformat omits the fraction
\* when microsecond is 0
IsoFormat(t) ==
    IF t[2] = 0
    THEN <<ORD_ZERO + t[1], ORD_Z>>
    ELSE <<ORD_ZERO + t[1], ORD_DOT, ORD_ZERO + t[2], ORD_Z>>

\* datetime.fromisoformat(s.replace("Z", "+00:00"))
FromIso(s) ==
    IF Len(s) = 2 THEN <<s[1] - ORD_ZERO, 0>> ELSE <<s[1] - ORD_ZERO, s[3] - ORD_ZERO>>

\* now.strftime('%Y%m%d%H%M%S'): to the second
StrfSeconds(t) == t[1]

\* rfc822(dt): to the second
rfc822(t) == t[1]

\* Python's < on strings: lexicographic by code point, a proper prefix is less
RECURSIVE StrLess(_, _)
StrLess(a, b) ==
    IF b = <<>> THEN FALSE
    ELSE IF a = <<>> THEN TRUE
    ELSE IF Head(a) # Head(b) THEN Head(a) < Head(b)
    ELSE StrLess(Tail(a), Tail(b))

(***************************************************************************)
(* Lists.                                                                  *)
(***************************************************************************)
\* the key of items.sort(key=lambda x: x["pubdate_iso"], reverse=True)
SortKey(e) == e.pubdate_iso

\* a descending sort that is not stable: e goes before the elements whose key
\* equals its own
RECURSIVE InsertDesc_before_ties(_, _)
InsertDesc_before_ties(sorted, e) ==
    IF sorted = <<>> THEN <<e>>
    ELSE IF StrLess(SortKey(e), SortKey(Head(sorted)))
         THEN <<Head(sorted)>> \o InsertDesc_before_ties(Tail(sorted), e)
         ELSE <<e>> \o sorted

\* one step of the stable descending sort: e goes after every element whose
\* key is not less than its own
RECURSIVE InsertDesc(_, _)
InsertDesc(sorted, e) ==
    IF sorted = <<>> THEN <<e>>
    ELSE IF StrLess(SortKey(Head(sorted)), SortKey(e))
         THEN <<e>> \o sorted
         ELSE <<Head(sorted)>> \o InsertDesc(Tail(sorted), e)

\* list.sort(key=..., reverse=True): stable, equal keys keep their order
RECURSIVE SortDesc(_)
SortDesc(items) ==
    IF items = <<>> THEN <<>>
    ELSE InsertDesc(SortDesc(SubSeq(items, 1, Len(items) - 1)), items[Len(items)])

\* Python's slice bound: a negative index counts from the end, and the
\* result is clipped to 0..len
SliceBound(len, k) ==
    LET i == IF k < 0 THEN len + k ELSE k
    IN  IF i < 0 THEN 0 ELSE IF i > len THEN len ELSE i

\* items[:k]
SliceTo(items, k) == SubSeq(items, 1, SliceBound(Len(items), k))

\* items[k:]
SliceFrom(items, k) == SubSeq(items, SliceBound(Len(items), k) + 1, Len(items))

(***************************************************************************)
(* The environment: papers, local files, the remote store.                 *)
(***************************************************************************)
\* the paper identifiers given as --arxiv
Papers == {"p1", "p2", "p3"}

\* get_arxiv_info(arxiv_id)["title"]
PaperTitle(arxiv) ==
    CASE arxiv = "p1" -> <<"A", "b", "!">>
      [] arxiv = "p2" -> <<"c", " ", "1">>
      [] OTHER -> <<"B", ":", "2">>

\* OUT_AUDIO: the stems <clean_title> of the files <clean_title>_podcast.mp3
\* the pipeline has produced; none for "p3"
OUT_AUDIO == {CleanTitle(PaperTitle(a)) : a \in {"p1", "p2"}}

\* size in bytes of OUT_AUDIO/<stem>_podcast.mp3
AudioBytes(stem) == Len(stem) + 1

\* size in bytes of the copy ffmpeg writes, with the ID3 title tag added
TaggedBytes(stem, title) == AudioBytes(stem) + Len(title) + 1

\* the two publisher processes of the concurrent specification; the
\* sequential one runs publisher 1 alone
Procs == {1, 2}
Single == {1}

\* the values of --keep tried
KeepValues == (0 - 1)..MaxKeep

VARIABLES
    store,          \* the R2 bucket: key -> object content
    episodes_json,  \* data/episodes.json: [exists, json, items]; json is
                    \* "list" (items is the list), "object" (JSON, but
                    \* not a list) or "invalid" (not JSON)
    out_tmp,        \* OUT_TMP: slug -> size of <slug>_tagged.mp3
    local_cover,    \* whether LOCAL_COVER_PATH exists
    no_ffmpeg_tag,  \* whether the operator passes --no_ffmpeg_tag
    faults,         \* failed calls of external services so far
    clock,          \* the last value datetime.now returned
    calls,          \* publish calls started so far
    puts,           \* shared-asset key -> put_object calls that succeeded
    lies,           \* head_object lookups of an existing object that failed
    call            \* per publisher: position in main() and its locals

vars == <<store, episodes_json, out_tmp, local_cover, no_ffmpeg_tag, faults,
          clock, calls, puts, lies, call>>

\* what no step of main() changes
env == <<local_cover, no_ffmpeg_tag>>

NoKey == <<"", <<>>>>

\* what a call remembers of the call its publisher made before it: how it
\* ended, its arguments, the record it appended and the catalog it started on
NoPrev ==
    [pc |-> "idle", arxiv |-> "", keep |-> 0,
     rec |-> [guid |-> <<"", 0>>, title |-> <<>>, description |-> "",
              pubdate_iso |-> IsoFormat(<<0, 0>>), mp3_key |-> NoKey,
              mp3_length_bytes |-> 0, episode_page_key |-> NoKey],
     base |-> [exists |-> FALSE, json |-> "list", items |-> <<>>]]

\* a publisher that is not inside main()
IdleCall ==
    [pc |-> "idle", arxiv |-> "", keep |-> 0, prev |-> NoPrev,
     title |-> <<>>, description |-> "", mp3_in |-> <<>>, tagged |-> FALSE,
     mp3_len |-> 0, slug |-> <<>>, now |-> <<0, 0>>, guid |-> <<"", 0>>,
     mp3_key |-> NoKey, episode_page_key |-> NoKey, items |-> <<>>,
     todo |-> <<>>, err |-> "", ops |-> <<>>,
     pre |-> [store |-> <<>>, out_tmp |-> <<>>,
              episodes_json |-> [exists |-> FALSE, json |-> "list", items |-> <<>>]]]

Init ==
    /\ store = <<>>
    /\ episodes_json = [exists |-> FALSE, json |-> "list", items |-> <<>>]
    /\ out_tmp = <<>>
    /\ local_cover \in BOOLEAN
    /\ no_ffmpeg_tag \in BOOLEAN
    /\ faults = 0
    /\ clock = <<0, 0>>
    /\ calls = 0
    /\ puts = [k \in {INDEX_KEY, ARTWORK_KEY} |-> 0]
    /\ lies = 0
    /\ call = [p \in Procs |-> IdleCall]

(***************************************************************************)
(* The object store client and the catalog file.                           *)
(***************************************************************************)
\* a function with one more (or one overwritten) entry
Put(f, k, v) == [x \in DOMAIN f \cup {k} |-> IF x = k THEN v ELSE f[x]]

\* a function without entry k
Remove(f, k) == [x \in DOMAIN f \ {k} |-> f[x]]

\* the entry a call appends to its log of operations
Op(op, key, data) == [op |-> op, key |-> key, data |-> data]

\* a probe that answers True whatever head_object does
head_object_exists_always(key, lookupOk) == TRUE

\* head_object_exists: True when the lookup succeeds, False on any exception
head_object_exists(key, lookupOk) == lookupOk /\ key \in DOMAIN store

\* load_episodes: [] when there is no file, else what json.loads returns
load_episodes == IF episodes_json.exists THEN episodes_json.items ELSE <<>>

\* json.loads raises: the file is not JSON
LoadRaises == episodes_json.exists /\ episodes_json.json = "invalid"

\* items.append raises: json.loads has returned something that is not a list
AppendRaises == episodes_json.exists /\ episodes_json.json = "object"

\* x["pubdate_iso"] raises for some element of the list
SortRaises(items) == \E i \in 1..Len(items) : "pubdate_iso" \notin DOMAIN items[i]

\* the keys render_feed_xml reads of each episode
FeedFields ==
    {"guid", "title", "description", "pubdate_iso", "mp3_key", "mp3_length_bytes",
     "episode_page_key"}

\* e[...] raises KeyError in render_feed_xml for some episode
RenderRaises(episodes) ==
    \E i \in 1..Len(episodes) : ~(FeedFields \subseteq DOMAIN episodes[i])

\* stands for the key of a record that does not have it: old[...] raises
MissingKey == <<"KeyError", <<>>>>

\* save_episodes
save_episodes(items) == [exists |-> TRUE, json |-> "list", items |-> items]

\* the record main() appends
NewRecord(c) ==
    [guid |-> c.guid, title |-> c.title, description |-> c.description,
     pubdate_iso |-> IsoFormat(c.now), mp3_key |-> c.mp3_key,
     mp3_length_bytes |-> c.mp3_len, episode_page_key |-> c.episode_page_key]

\* an item whose enclosure carries length="0" instead of the record's length
FeedItem_zero_length(e) ==
    [title |-> e.title, description |-> e.description,
     link |-> e.episode_page_key, enclosure |-> e.mp3_key,
     length |-> 0, guid |-> e.guid,
     pubDate |-> rfc822(FromIso(e.pubdate_iso))]

\* render_feed_xml: one item per episode, in the order given
FeedItem(e) ==
    [title |-> e.title, description |-> e.description,
     link |-> e.episode_page_key, enclosure |-> e.mp3_key,
     length |-> e.mp3_length_bytes, guid |-> e.guid,
     pubDate |-> rfc822(FromIso(e.pubdate_iso))]

render_feed_xml(episodes) == [i \in 1..Len(episodes) |-> FeedItem(episodes[i])]

\* the keys the cleanup loop deletes, in the order it deletes them
RECURSIVE EvictKeys(_)
EvictKeys(olds) ==
    IF olds = <<>> THEN <<>>
    ELSE LET old == Head(olds)
         IN  <<IF "mp3_key" \in DOMAIN old THEN old.mp3_key ELSE MissingKey,
               IF "episode_page_key" \in DOMAIN old THEN old.episode_page_key
                                                    ELSE MissingKey>>
             \o EvictKeys(Tail(olds))

\* kept = items[: args.keep]
Kept(items, keep) == SliceTo(items, keep)

\* items[args.keep:]
Evicted(items, keep) == SliceFrom(items, keep)

\* an exception leaves main(): nothing after it runs
Fail(p, error) ==
    call' = [call EXCEPT ![p].pc = "failed", ![p].err = error]

(***************************************************************************)
(* main(), one action per numbered step of the source.                     *)
(***************************************************************************)
\* a call of an external service fails
Fault == faults < MaxFaults /\ faults' = faults + 1

\* what the next call of publisher p remembers of the call that has ended
Remembered(p) ==
    [pc |-> call[p].pc, arxiv |-> call[p].arxiv, keep |-> call[p].keep,
     rec |-> IF call[p].pc = "done" THEN NewRecord(call[p]) ELSE NoPrev.rec,
     base |-> IF call[p].pc = "failed" THEN call[p].pre.episodes_json
                                       ELSE NoPrev.base]

\* argparse: --arxiv, --keep (any int); the description keeps its default
Enter(p, prev) ==
    /\ call[p].pc \in {"idle", "done", "failed"}
    /\ calls < MaxCalls
    /\ calls' = calls + 1
    /\ \E arxiv \in Papers, keep \in KeepValues :
         call' = [call EXCEPT ![p] =
                    [IdleCall EXCEPT !.pc = "resolve", !.arxiv = arxiv,
                                     !.keep = keep,
                                     !.description = DEFAULT_DESCRIPTION,
                                     !.prev = prev,
                                     !.pre = [store |-> store, out_tmp |-> out_tmp,
                                              episodes_json |-> episodes_json]]]
    /\ UNCHANGED <<store, episodes_json, out_tmp, env, faults, clock, puts, lies>>

\* main() is entered
Start(p) == Enter(p, NoPrev)

\* main() is entered, the call before it remembered
StartAfter(p) == Enter(p, Remembered(p))

\* find_mp3_for_title without its mp3_path.exists() check
find_mp3_for_title_unchecked(arxiv) == <<"ok", CleanTitle(PaperTitle(arxiv))>>

\* find_mp3_for_title: the path of the MP3, or FileNotFoundError
find_mp3_for_title(arxiv) ==
    LET stem == CleanTitle(PaperTitle(arxiv))
    IN  IF stem \notin OUT_AUDIO THEN <<"FileNotFoundError", <<>>>> ELSE <<"ok", stem>>

\* get_arxiv_info and 1) locate the MP3
Resolve(p) ==
    /\ call[p].pc = "resolve"
    /\ LET found == find_mp3_for_title(call[p].arxiv)
       IN  IF found[1] # "ok"
           THEN Fail(p, found[1])
           ELSE call' = [call EXCEPT ![p].pc = "stage",
                                     ![p].title = PaperTitle(call[p].arxiv),
                                     ![p].mp3_in = found[2]]
    /\ UNCHANGED <<store, episodes_json, out_tmp, env, faults, clock, calls, puts,
                   lies>>

\* 2) tag the MP3 unless --no_ffmpeg_tag; mp3_len is the staged file's size
StageAudio(p) ==
    /\ call[p].pc = "stage"
    /\ LET c == call[p]
           tmp == slugify(c.title, SLUG_MAX_LEN)
       IN  IF no_ffmpeg_tag
           THEN /\ call' = [call EXCEPT ![p].pc = "index",
                                        ![p].mp3_len = AudioBytes(c.mp3_in)]
                /\ UNCHANGED <<out_tmp, faults>>
           ELSE \/ /\ out_tmp' = Put(out_tmp, tmp, TaggedBytes(c.mp3_in, c.title))
                   /\ call' = [call EXCEPT ![p].pc = "index", ![p].tagged = TRUE,
                                           ![p].mp3_len = out_tmp'[tmp]]
                   /\ UNCHANGED faults
                \/ /\ Fault
                   /\ Fail(p, "CalledProcessError")
                   /\ UNCHANGED out_tmp
    /\ UNCHANGED <<store, episodes_json, env, clock, calls, puts, lies>>

\* upload_bytes / upload_file: put_object overwrites unconditionally, or raises
Upload(p, key, data, next) ==
    \/ /\ store' = Put(store, key, data)
       /\ puts' = [k \in DOMAIN puts |-> IF k = key THEN puts[k] + 1 ELSE puts[k]]
       /\ call' = [call EXCEPT ![p].pc = next,
                               ![p].ops = Append(@, Op("put", key, data))]
       /\ UNCHANGED faults
    \/ /\ Fault
       /\ Fail(p, "StorageError")
       /\ UNCHANGED <<store, puts>>

\* head_object: the lookup of an existing object may fail (the lookup of an
\* absent one fails anyway, with 404)
Lookup(key, lookupOk) ==
    IF lookupOk \/ key \notin DOMAIN store
    THEN UNCHANGED lies
    ELSE lies < MaxFaults /\ lies' = lies + 1

\* ensure_index_html without its head_object_exists check
ensure_index_html_unconditional(p, lookupOk) ==
    Upload(p, INDEX_KEY, "index", "artwork")

\* ensure_index_html
ensure_index_html(p, lookupOk) ==
    IF head_object_exists(INDEX_KEY, lookupOk)
    THEN /\ call' = [call EXCEPT ![p].pc = "artwork",
                                 ![p].ops = Append(@, Op("head", INDEX_KEY, TRUE))]
         /\ UNCHANGED <<store, puts, faults>>
    ELSE Upload(p, INDEX_KEY, "index", "artwork")

\* ensure_artwork
ensure_artwork(p, lookupOk) ==
    IF head_object_exists(ARTWORK_KEY, lookupOk)
    THEN /\ call' = [call EXCEPT ![p].pc = "keys",
                                 ![p].ops = Append(@, Op("head", ARTWORK_KEY, TRUE))]
         /\ UNCHANGED <<store, puts, faults>>
    ELSE IF ~local_cover
         THEN /\ Fail(p, "RuntimeError")
              /\ UNCHANGED <<store, puts, faults>>
         ELSE Upload(p, ARTWORK_KEY, "cover", "keys")

\* 3) ensure shared assets exist: the landing page
EnsureIndex(p) ==
    /\ call[p].pc = "index"
    /\ \E lookupOk \in BOOLEAN :
         /\ Lookup(INDEX_KEY, lookupOk)
         /\ ensure_index_html(p, lookupOk)
    /\ UNCHANGED <<episodes_json, out_tmp, env, clock, calls>>

\* 3) ensure shared assets exist: the cover
EnsureArtwork(p) ==
    /\ call[p].pc = "artwork"
    /\ \E lookupOk \in BOOLEAN :
         /\ Lookup(ARTWORK_KEY, lookupOk)
         /\ ensure_artwork(p, lookupOk)
    /\ UNCHANGED <<episodes_json, out_tmp, env, clock, calls>>

\* guid = f"{args.arxiv}-{now.strftime('%Y%m%d%H%M%S')}"
Guid(arxiv, now) == <<arxiv, StrfSeconds(now)>>

\* 4) slug, now, guid and the two keys; datetime.now does not go back
ChooseKeys(p) ==
    /\ call[p].pc = "keys"
    /\ \E t \in Times :
         /\ TimeLeq(clock, t)
         /\ clock' = t
         /\ LET slug == slugify(call[p].title, SLUG_MAX_LEN)
            IN  call' = [call EXCEPT ![p].pc = "mp3", ![p].slug = slug, ![p].now = t,
                                     ![p].guid = Guid(call[p].arxiv, t),
                                     ![p].mp3_key = <<"podcasts", slug>>,
                                     ![p].episode_page_key = <<"episodes", slug>>]
    /\ UNCHANGED <<store, episodes_json, out_tmp, env, faults, calls, puts, lies>>

\* the bytes of the input MP3, uploaded in place of the staged copy
StagedBytes_of_input(c) == AudioBytes(c.mp3_in)

\* the bytes upload_file reads from mp3_to_upload
StagedBytes(c) ==
    IF c.tagged THEN out_tmp[slugify(c.title, SLUG_MAX_LEN)] ELSE AudioBytes(c.mp3_in)

\* 5) upload MP3
UploadAudio(p) ==
    /\ call[p].pc = "mp3"
    /\ Upload(p, call[p].mp3_key, StagedBytes(call[p]), "page")
    /\ UNCHANGED <<episodes_json, out_tmp, env, clock, calls, lies>>

\* render_episode_html
render_episode_html(c) == <<c.title, c.mp3_key, rfc822(c.now)>>

\* 6) upload episode HTML
UploadPage(p) ==
    /\ call[p].pc = "page"
    /\ Upload(p, call[p].episode_page_key, render_episode_html(call[p]), "catalog")
    /\ UNCHANGED <<episodes_json, out_tmp, env, clock, calls, lies>>

\* the list 7) saves: the loaded catalog, the new record appended, sorted
UpdatedItems(loaded, rec) == SortDesc(Append(loaded, rec))

\* 7) update episodes.json: load, append, sort, save
UpdateCatalog(p) ==
    /\ call[p].pc = "catalog"
    /\ IF LoadRaises
       THEN Fail(p, "JSONDecodeError") /\ UNCHANGED episodes_json
       ELSE IF AppendRaises
       THEN Fail(p, "AttributeError") /\ UNCHANGED episodes_json
       ELSE IF SortRaises(load_episodes)
       THEN Fail(p, "KeyError") /\ UNCHANGED episodes_json
       ELSE LET items == UpdatedItems(load_episodes, NewRecord(call[p]))
            IN  /\ episodes_json' = save_episodes(items)
                /\ call' = [call EXCEPT ![p].pc = "feed", ![p].items = items,
                                        ![p].ops = Append(@, Op("save", NoKey, items))]
    /\ UNCHANGED <<store, out_tmp, env, faults, clock, calls, puts, lies>>

\* 8) render + upload feed.xml (keeping last N)
PublishFeed(p) ==
    /\ call[p].pc = "feed"
    /\ LET kept == Kept(call[p].items, call[p].keep)
           logged == [call EXCEPT ![p].ops = Append(@, Op("render", NoKey, kept))]
       IN  IF RenderRaises(kept)
           THEN Fail(p, "KeyError") /\ UNCHANGED <<store, faults>>
           ELSE \/ /\ store' = Put(store, FEED_KEY, render_feed_xml(kept))
                   /\ call' = [logged EXCEPT
                                 ![p].pc = "evict",
                                 ![p].todo = EvictKeys(Evicted(call[p].items,
                                                               call[p].keep)),
                                 ![p].ops = Append(@, Op("put", FEED_KEY,
                                                         render_feed_xml(kept)))]
                   /\ UNCHANGED faults
                \/ /\ Fault
                   /\ call' = [logged EXCEPT ![p].pc = "failed",
                                             ![p].err = "StorageError"]
                   /\ UNCHANGED store
    /\ UNCHANGED <<episodes_json, out_tmp, env, clock, calls, puts, lies>>

\* delete_key: delete_object removes the object if there is one, or raises
delete_key(p, key) ==
    \/ /\ store' = Remove(store, key)
       /\ call' = [call EXCEPT ![p].todo = Tail(@),
                               ![p].ops = Append(@, Op("delete", key, <<>>))]
       /\ UNCHANGED faults
    \/ /\ Fault
       /\ Fail(p, "StorageError")
       /\ UNCHANGED store

\* 9) cleanup old episodes in R2 beyond keep: one delete_key of the loop
EvictStep(p) ==
    /\ call[p].pc = "evict"
    /\ call[p].todo # <<>>
    /\ IF Head(call[p].todo) = MissingKey
       THEN Fail(p, "KeyError") /\ UNCHANGED <<store, faults>>
       ELSE delete_key(p, Head(call[p].todo))
    /\ UNCHANGED <<episodes_json, out_tmp, env, clock, calls, puts, lies>>

\* the final save without the [: args.keep] slice
PersistCatalog_untruncated(p) ==
    /\ call[p].pc = "evict"
    /\ call[p].todo = <<>>
    /\ episodes_json' = save_episodes(call[p].items)
    /\ call' = [call EXCEPT ![p].pc = "done",
                            ![p].ops = Append(@, Op("save", NoKey, call[p].items))]
    /\ UNCHANGED <<store, out_tmp, env, faults, clock, calls, puts, lies>>

\* the final save moved in front of the cleanup loop
PersistCatalog_before_cleanup(p) ==
    /\ call[p].pc = "evict"
    /\ call[p].ops[Len(call[p].ops)].op # "save"
    /\ LET kept == Kept(call[p].items, call[p].keep)
       IN  /\ episodes_json' = save_episodes(kept)
           /\ call' = [call EXCEPT ![p].pc = IF call[p].todo = <<>> THEN "done"
                                                                   ELSE "evict",
                                   ![p].ops = Append(@, Op("save", NoKey, kept))]
    /\ UNCHANGED <<store, out_tmp, env, faults, clock, calls, puts, lies>>

\* save_episodes(items[: args.keep]) after the loop
PersistCatalog(p) ==
    /\ call[p].pc = "evict"
    /\ call[p].todo = <<>>
    /\ LET kept == Kept(call[p].items, call[p].keep)
       IN  /\ episodes_json' = save_episodes(kept)
           /\ call' = [call EXCEPT ![p].pc = "done",
                                   ![p].ops = Append(@, Op("save", NoKey, kept))]
    /\ UNCHANGED <<store, out_tmp, env, faults, clock, calls, puts, lies>>

Step(p) ==
    \/ Start(p)
    \/ Resolve(p)
    \/ StageAudio(p)
    \/ EnsureIndex(p)
    \/ EnsureArtwork(p)
    \/ ChooseKeys(p)
    \/ UploadAudio(p)
    \/ UploadPage(p)
    \/ UpdateCatalog(p)
    \/ PublishFeed(p)
    \/ EvictStep(p)
    \/ PersistCatalog(p)

\* a single publisher, as the design assumes
Next == \E p \in Single : Step(p)

Spec == Init /\ [][Next]_vars

\* the steps of main() after its entry
Body(p) ==
    \/ Resolve(p)
    \/ StageAudio(p)
    \/ EnsureIndex(p)
    \/ EnsureArtwork(p)
    \/ ChooseKeys(p)
    \/ UploadAudio(p)
    \/ UploadPage(p)
    \/ UpdateCatalog(p)
    \/ PublishFeed(p)
    \/ EvictStep(p)
    \/ PersistCatalog(p)

\* a single publisher whose calls remember the call before them
NextAfter == \E p \in Single : StartAfter(p) \/ Body(p)

SpecAfter == Init /\ [][NextAfter]_vars

\* two publishers run main() once each at the same time, their steps
\* interleaved
NextConc == \E p \in Procs : (call[p].pc = "idle" /\ Start(p)) \/ Body(p)

\* the concurrent runs start with a local cover, without tagging, and meet
\* no failing service
InitConc ==
    /\ store = <<>>
    /\ episodes_json = [exists |-> FALSE, json |-> "list", items |-> <<>>]
    /\ out_tmp = <<>>
    /\ local_cover = TRUE
    /\ no_ffmpeg_tag = TRUE
    /\ faults = MaxFaults
    /\ clock = <<0, 0>>
    /\ calls = 0
    /\ puts = [k \in {INDEX_KEY, ARTWORK_KEY} |-> 0]
    /\ lies = MaxFaults
    /\ call = [p \in Procs |-> IdleCall]

SpecConc == InitConc /\ [][NextConc]_vars

\* a record of the expected schema, of an earlier publish of paper "p2"
StaleRecord ==
    [guid |-> Guid("p2", <<0, 0>>), title |-> PaperTitle("p2"),
     description |-> DEFAULT_DESCRIPTION, pubdate_iso |-> IsoFormat(<<0, 0>>),
     mp3_key |-> <<"podcasts", slugify(PaperTitle("p2"), SLUG_MAX_LEN)>>,
     mp3_length_bytes |-> AudioBytes(CleanTitle(PaperTitle("p2"))),
     episode_page_key |-> <<"episodes", slugify(PaperTitle("p2"), SLUG_MAX_LEN)>>]

\* a JSON object without "pubdate_iso"
UndatedRecord == [guid |-> Guid("p2", <<0, 0>>), title |-> PaperTitle("p2")]

\* a JSON object with "pubdate_iso" but without the keys and the length
KeylessRecord ==
    [guid |-> Guid("p2", <<0, 0>>), title |-> PaperTitle("p2"),
     description |-> DEFAULT_DESCRIPTION, pubdate_iso |-> IsoFormat(<<0, 0>>)]

\* the contents of data/episodes.json a publish call may find: no file, a
\* list of records, text that is not JSON (an interrupted write_text, an
\* edit), JSON that is not a list, lists with a record of another schema
CatalogFiles ==
    {[exists |-> FALSE, json |-> "list", items |-> <<>>],
     [exists |-> TRUE, json |-> "list", items |-> <<StaleRecord>>],
     [exists |-> TRUE, json |-> "invalid", items |-> <<>>],
     [exists |-> TRUE, json |-> "object", items |-> <<>>],
     [exists |-> TRUE, json |-> "list", items |-> <<UndatedRecord>>],
     [exists |-> TRUE, json |-> "list", items |-> <<KeylessRecord>>]}

\* publish calls on a catalog file found on disk: MaxLoadCalls calls remain
InitLoad ==
    /\ store = <<>>
    /\ episodes_json \in CatalogFiles
    /\ out_tmp = <<>>
    /\ local_cover \in BOOLEAN
    /\ no_ffmpeg_tag \in BOOLEAN
    /\ faults = 0
    /\ clock = <<0, 0>>
    /\ calls = MaxCalls - MaxLoadCalls
    /\ puts = [k \in {INDEX_KEY, ARTWORK_KEY} |-> 0]
    /\ lies = 0
    /\ call = [p \in Procs |-> IdleCall]

SpecLoad == InitLoad /\ [][Next]_vars

\* one character of each class slugify distinguishes
SlugAlphabet == {"a", "A", "1", " ", "-", "_", "!", "U+211D"}

\* the strings over SlugAlphabet of length at most max
Affixes(max) == UNION {[1..n -> SlugAlphabet] : n \in 0..max}

\* n times the letter "b"
Run(n) == [i \in 1..n |-> "b"]

\* the titles get_arxiv_info may return
Titles ==
    {u \o Run(n) \o v :
        u \in Affixes(MaxPrefix), v \in Affixes(MaxSuffix),
        n \in {0} \cup ((SLUG_MAX_LEN - MaxSuffix)..(SLUG_MAX_LEN + MaxOver))}

\* main() before step 4, with any title
InitSlug ==
    /\ store = <<>>
    /\ episodes_json = [exists |-> FALSE, json |-> "list", items |-> <<>>]
    /\ out_tmp = <<>>
    /\ local_cover = TRUE
    /\ no_ffmpeg_tag = TRUE
    /\ faults = 0
    /\ clock = <<0, 0>>
    /\ calls = 1
    /\ puts = [k \in {INDEX_KEY, ARTWORK_KEY} |-> 0]
    /\ lies = 0
    /\ \E title \in Titles :
         call = [p \in Procs |->
                   IF p \in Single
                   THEN [IdleCall EXCEPT !.pc = "keys", !.arxiv = "p1",
                                        !.title = title,
                                        !.description = DEFAULT_DESCRIPTION]
                   ELSE IdleCall]

\* step 4 alone: slugify applied to the title
NextSlug == \E p \in Single : ChooseKeys(p)

SpecSlug == InitSlug /\ [][NextSlug]_vars

(***************************************************************************)
(* Vocabulary of the properties.                                           *)
(***************************************************************************)
Min(a, b) == IF a < b THEN a ELSE b

\* the publish timestamp a record carries
PublishedAt(e) == FromIso(e.pubdate_iso)

\* most recent first, chronologically
ChronDescending(items) ==
    \A i, j \in 1..Len(items) :
        i < j => TimeLeq(PublishedAt(items[j]), PublishedAt(items[i]))

\* the feed's items by their pubDate, most recent first
FeedDescending(feed) ==
    \A i, j \in 1..Len(feed) : i < j => feed[j].pubDate <= feed[i].pubDate

\* how many operations op on key a call has performed
CountOps(ops, op, key) ==
    Cardinality({i \in 1..Len(ops) : ops[i].op = op /\ ops[i].key = key})

\* the operations op of a call
OpsOf(ops, op) == {i \in 1..Len(ops) : ops[i].op = op}

\* the durable catalog
Persisted == load_episodes

\* publisher p has returned from main() without an exception
Published(p) == call[p].pc = "done"

\* the part of C1 that holds: the persisted catalog and feed.xml have
\* min(M+1, N) entries
C1_Counts ==
    \A p \in Procs :
        LET c == call[p]
            M == Len(c.pre.episodes_json.items)
        IN  (Published(p) /\ c.keep > 0 /\ M <= c.keep) =>
                /\ Len(Persisted) = Min(M + 1, c.keep)
                /\ Len(store[FEED_KEY]) = Min(M + 1, c.keep)

(***************************************************************************)
(* C1.  Retention invariant: after a successful publish with keepN = N > 0 *)
(* on a persisted catalog of M <= N records, the persisted catalog has     *)
(* min(M+1, N) records, feed.xml has that many items, and both are in      *)
(* descending publish-timestamp order.                                     *)
(* Refuted: the count holds (C1_Counts), the order does not, because the   *)
(* sort compares pubdate_iso as strings (see C5).                          *)
(***************************************************************************)
C1_RetentionInvariant ==
    /\ C1_Counts
    /\ \A p \in Procs :
        LET c == call[p]
            M == Len(c.pre.episodes_json.items)
        IN  (Published(p) /\ c.keep > 0 /\ M <= c.keep) =>
                /\ ChronDescending(Persisted)
                /\ FeedDescending(store[FEED_KEY])

(***************************************************************************)
(* C2.  Eviction completeness: in a successful publish, each audio key and *)
(* each page key of a record beyond position keepN is deleted exactly      *)
(* once, also when several evicted records carry the same key.             *)
(* Refuted: the loop deletes per record, so a key two evicted records      *)
(* share is deleted twice (C2_DeletedPerRecord).                           *)
(***************************************************************************)
C2_EvictedKeysDeletedOnce ==
    \A p \in Procs :
        LET c == call[p]
            evicted == Evicted(c.items, c.keep)
        IN  (Published(p) /\ c.keep > 0) =>
                \A i \in 1..Len(evicted) :
                    /\ CountOps(c.ops, "delete", evicted[i].mp3_key) = 1
                    /\ CountOps(c.ops, "delete", evicted[i].episode_page_key) = 1

\* what the cleanup loop does: two deletes per evicted record, so a key is
\* deleted once for each evicted record that carries it
C2_DeletedPerRecord ==
    \A p \in Procs :
        LET c == call[p]
            evicted == Evicted(c.items, c.keep)
        IN  (Published(p) /\ c.keep > 0) =>
                /\ Cardinality(OpsOf(c.ops, "delete")) = 2 * Len(evicted)
                /\ \A i \in 1..Len(evicted) :
                    /\ CountOps(c.ops, "delete", evicted[i].mp3_key) =
                         Cardinality({j \in 1..Len(evicted) :
                                        evicted[j].mp3_key = evicted[i].mp3_key})
                    /\ CountOps(c.ops, "delete", evicted[i].episode_page_key) =
                         Cardinality({j \in 1..Len(evicted) :
                                        evicted[j].episode_page_key =
                                          evicted[i].episode_page_key})

\* the part of C3 that holds: the slices partition the sorted list, and the
\* first slice is what is persisted
C3_Partition ==
    \A p \in Procs :
        LET c == call[p]
            kept == Kept(c.items, c.keep)
            evicted == Evicted(c.items, c.keep)
        IN  (Published(p) /\ c.keep > 0) =>
                /\ kept = SubSeq(c.items, 1, Min(c.keep, Len(c.items)))
                /\ kept \o evicted = c.items
                /\ Len(c.items) = Len(c.pre.episodes_json.items) + 1
                /\ Persisted = kept

(***************************************************************************)
(* C3.  Retention partition: kept is the first min(keepN, len) records of  *)
(* the sorted catalog, evicted the remainder, kept followed by evicted is  *)
(* the sorted catalog, and the persisted catalog is the keepN most recent  *)
(* records of the old catalog plus the new record.                         *)
(* Refuted: the partition holds (C3_Partition); the records kept are not   *)
(* the most recent ones when the string order of pubdate_iso is not the    *)
(* chronological order (see C5).                                           *)
(***************************************************************************)
C3_RetentionPartition ==
    /\ C3_Partition
    /\ \A p \in Procs :
        LET c == call[p]
            kept == Kept(c.items, c.keep)
            evicted == Evicted(c.items, c.keep)
        IN  (Published(p) /\ c.keep > 0) =>
                \A i \in 1..Len(kept), j \in 1..Len(evicted) :
                    TimeLeq(PublishedAt(evicted[j]), PublishedAt(kept[i]))

(***************************************************************************)
(* C4.  guid uniqueness: no two records of the persisted catalog have the  *)
(* same guid, also after re-publishing one paper within one clock second.  *)
(***************************************************************************)
C4_GuidUnique ==
    (\E p \in Procs : Published(p)) =>
        \A i, j \in 1..Len(Persisted) :
            i # j => Persisted[i].guid # Persisted[j].guid

(***************************************************************************)
(* C5.  Every sequence written to episodes.json and every sequence passed  *)
(* to render_feed_xml is in descending chronological order of the publish  *)
(* timestamps.                                                             *)
(***************************************************************************)
C5_SortedBeforePersistAndRender ==
    \A p \in Procs :
        \A i \in 1..Len(call[p].ops) :
            call[p].ops[i].op \in {"save", "render"} =>
                ChronDescending(call[p].ops[i].data)

(***************************************************************************)
(* C6.  A publish call with keepN <= 0 fails with a configuration error    *)
(* and performs no retention step: it does not complete, renders and       *)
(* uploads no feed, deletes nothing.                                       *)
(***************************************************************************)
C6_NonPositiveKeepRejected ==
    \A p \in Procs :
        LET c == call[p]
        IN  (c.pc # "idle" /\ c.keep <= 0) =>
                /\ ~Published(p)
                /\ OpsOf(c.ops, "render") = {}
                /\ OpsOf(c.ops, "delete") = {}
                /\ CountOps(c.ops, "put", FEED_KEY) = 0

(***************************************************************************)
(* C7.  Shared assets are never overwritten: no step uploads index.html or *)
(* the artwork while that object exists in the store, whatever the probe   *)
(* answered.                                                               *)
(***************************************************************************)
C7_SharedAssetsNeverOverwritten ==
    [][\A k \in {INDEX_KEY, ARTWORK_KEY} :
          k \in DOMAIN store => puts'[k] = puts[k]]_vars

\* the positions of main() after step 3
AfterSharedAssets == {"keys", "mp3", "page", "catalog", "feed", "evict", "done"}

(***************************************************************************)
(* C8.  Idempotent asset creation: as long as every existence probe has    *)
(* answered truthfully, however many times the shared-asset step has run   *)
(* from the empty store, each shared asset has been uploaded at most once, *)
(* and exactly once as soon as one run of the step has completed.          *)
(***************************************************************************)
C8_IdempotentAssetCreation ==
    lies = 0 =>
        /\ \A k \in {INDEX_KEY, ARTWORK_KEY} :
              /\ puts[k] <= 1
              /\ (puts[k] = 1) = (k \in DOMAIN store)
        /\ \A p \in Procs :
              call[p].pc \in AfterSharedAssets =>
                  puts[INDEX_KEY] = 1 /\ puts[ARTWORK_KEY] = 1

\* C8's case: a second run of the step has completed without any upload
C8_Witness ==
    /\ lies = 0
    /\ calls >= 2
    /\ call[1].pc = "keys"
    /\ OpsOf(call[1].ops, "put") = {}
    /\ CountOps(call[1].ops, "head", INDEX_KEY) = 1
    /\ CountOps(call[1].ops, "head", ARTWORK_KEY) = 1

(***************************************************************************)
(* C9.  When the artwork is absent remotely and there is no local cover,   *)
(* the call fails before any upload: nothing has been written to the store *)
(* and the catalog is unchanged.                                           *)
(***************************************************************************)
C9_MissingAssetBeforeAnyUpload ==
    \A p \in Procs :
        LET c == call[p]
        IN  (c.pc = "failed" /\ c.err = "RuntimeError") =>
                /\ OpsOf(c.ops, "put") = {}
                /\ store = c.pre.store
                /\ episodes_json = c.pre.episodes_json

\* OUT_AUDIO holds no MP3 for the paper
NoAudio(arxiv) == CleanTitle(PaperTitle(arxiv)) \notin OUT_AUDIO

(***************************************************************************)
(* C10.  When there is no audio file for the paper, the call fails in the  *)
(* Resolve step with everything unchanged: no upload, no probe, no delete, *)
(* and the persisted catalog is what it was before the call.               *)
(***************************************************************************)
C10_NoAudioLeavesAllUnchanged ==
    \A p \in Procs :
        LET c == call[p]
        IN  (c.pc \notin {"idle", "resolve"} /\ NoAudio(c.arxiv)) =>
                /\ c.pc = "failed"
                /\ c.err = "FileNotFoundError"
                /\ c.ops = <<>>
                /\ store = c.pre.store
                /\ out_tmp = c.pre.out_tmp
                /\ episodes_json = c.pre.episodes_json

\* C10's case: the call fails so on a store and a catalog that earlier calls
\* have filled
C10_Witness ==
    /\ call[1].pc = "failed"
    /\ call[1].err = "FileNotFoundError"
    /\ NoAudio(call[1].arxiv)
    /\ Len(Persisted) > 0
    /\ FEED_KEY \in DOMAIN store

\* the keys of the objects a call has uploaded
Uploaded(ops) == {ops[i].key : i \in OpsOf(ops, "put")}

\* the part of C11 that holds: once main() has raised, it changes nothing
C11_NothingAfterFailure ==
    [][\A p \in Single :
          call[p].pc = "failed" =>
              /\ store' = store
              /\ episodes_json' = episodes_json
              /\ out_tmp' = out_tmp
              /\ call'[p].pc \in {"failed", "resolve"}]_vars

(***************************************************************************)
(* C11.  Abort without rollback: when a step of a publish call fails, no   *)
(* later step of that call runs, and every object an earlier step of that  *)
(* call uploaded is still in the store afterwards.                         *)
(* Refuted: no later step runs (C11_NothingAfterFailure), but the cleanup  *)
(* loop may already have deleted an object this call uploaded (the key is  *)
(* shared with an evicted record, or --keep is not positive, see C6, or    *)
(* the new record itself is evicted, see C3) when a later delete fails.    *)
(***************************************************************************)
C11_AbortWithoutRollback ==
    [][\A p \in Single :
          /\ call[p].pc = "failed" =>
                /\ store' = store
                /\ episodes_json' = episodes_json
                /\ out_tmp' = out_tmp
                /\ call'[p].pc \in {"failed", "resolve"}
          /\ call'[p].pc = "failed" => Uploaded(call'[p].ops) \subseteq DOMAIN store']_vars

\* the store after the puts and deletes of ops, in their order
RECURSIVE ApplyOps(_, _)
ApplyOps(objects, ops) ==
    IF ops = <<>> THEN objects
    ELSE LET o == Head(ops)
         IN  ApplyOps(CASE o.op = "put" -> Put(objects, o.key, o.data)
                        [] o.op = "delete" -> Remove(objects, o.key)
                        [] OTHER -> objects,
                      Tail(ops))

\* the positions of main() before the save of step 7
BeforeCatalogSave ==
    {"resolve", "stage", "index", "artwork", "keys", "mp3", "page", "catalog"}

\* what episodes.json holds between step 7 and the final save: the catalog
\* loaded by the call with the new record appended, sorted, not truncated
FullCatalog(c) ==
    [exists |-> TRUE, json |-> "list",
     items |-> SortDesc(Append(IF c.pre.episodes_json.exists
                               THEN c.pre.episodes_json.items ELSE <<>>,
                               NewRecord(c)))]

DeleteRaised(p) == call[p].pc = "failed" /\ call[p].todo # <<>>

(***************************************************************************)
(* C13.  A failing delete during eviction is tolerated: it does not abort  *)
(* the publish call, the remaining evicted keys are attempted, and the     *)
(* call goes on to persist the truncated catalog.                          *)
(* Refuted: main() does not catch the exception of delete_key; the call    *)
(* ends there, the remaining keys are not attempted and the final save     *)
(* does not happen.                                                        *)
(***************************************************************************)
C13_FailingDeleteTolerated ==
    \A p \in Single : ~DeleteRaised(p)

\* the paper a record was published for
PaperOf(e) == e.guid[1]

\* the records of items, as a set
Records(items) == {items[i] : i \in 1..Len(items)}

\* publisher p has completed a re-run: its call before this one was for the
\* same paper with the same --keep and failed
Retried(p) ==
    /\ Published(p)
    /\ call[p].prev.pc = "failed"
    /\ call[p].prev.arxiv = call[p].arxiv
    /\ call[p].prev.keep = call[p].keep

\* what one successful publish, in place of the failed call and its re-run,
\* would have persisted
SinglePublish(c) ==
    Kept(UpdatedItems(IF c.prev.base.exists THEN c.prev.base.items ELSE <<>>,
                      NewRecord(c)),
         c.keep)

(***************************************************************************)
(* C14.  Retry safety: when a publish call fails at any step and is re-run *)
(* to completion for the same paper, the persisted catalog is well-formed  *)
(* (most recent first, at most keepN records, pairwise distinct guids) and *)
(* differs from what a single successful publish would have persisted by   *)
(* at most extra entries for that paper: no record of another paper is     *)
(* lost or altered.                                                        *)
(***************************************************************************)
C14_RetrySafety ==
    \A p \in Single :
        LET c == call[p]
            single == Records(SinglePublish(c))
            others(rs) == {e \in rs : PaperOf(e) # c.arxiv}
        IN  (Retried(p) /\ c.keep > 0) =>
                /\ ChronDescending(Persisted)
                /\ Len(Persisted) <= c.keep
                /\ \A i, j \in 1..Len(Persisted) :
                      i # j => Persisted[i].guid # Persisted[j].guid
                /\ others(Records(Persisted)) = others(single)

\* publisher p has completed a call that followed a completed call for
\* another paper, both with --keep of at least 2
Followed(p) ==
    /\ Published(p)
    /\ call[p].prev.pc = "done"
    /\ call[p].prev.arxiv # call[p].arxiv
    /\ call[p].prev.keep >= 2
    /\ call[p].keep >= 2

(***************************************************************************)
(* C15.  Lost update under concurrency: two publish calls for different    *)
(* papers with keepN >= 2 that run concurrently can both complete and      *)
(* leave only one of the two new records in the persisted catalog          *)
(* (C15_LostUpdate is reachable under SpecConc); when the two calls run    *)
(* one after the other, the persisted catalog contains both new records.   *)
(* Refuted in its second half: run one after the other, the second call    *)
(* may evict the record of the first although it is the more recent one,   *)
(* because the sort compares pubdate_iso as strings (see C5).              *)
(***************************************************************************)
C15_SequentialKeepsBoth ==
    \A p \in Single :
        Followed(p) =>
            /\ call[p].prev.rec \in Records(Persisted)
            /\ NewRecord(call[p]) \in Records(Persisted)

\* the lost update: both publishers have completed calls for different
\* papers with --keep >= 2 on the same catalog snapshot, and the persisted
\* catalog holds the new record of one of them only
C15_LostUpdate ==
    /\ Published(1) /\ Published(2)
    /\ call[1].arxiv # call[2].arxiv
    /\ call[1].keep >= 2 /\ call[2].keep >= 2
    /\ call[1].pre.episodes_json = call[2].pre.episodes_json
    /\ NewRecord(call[1]) \in Records(Persisted)
    /\ NewRecord(call[2]) \notin Records(Persisted)

\* the file holds something other than a list of records of the schema
Malformed(file) ==
    /\ file.exists
    /\ \/ file.json # "list"
       \/ \E i \in 1..Len(file.items) : DOMAIN file.items[i] # FeedFields

\* the positions of main() after the save of step 7
AfterCatalogSave == {"feed", "evict", "done"}

(***************************************************************************)
(* C16.  Catalog load: load returns the empty list when there is no        *)
(* catalog file; when the file holds something other than a list of        *)
(* records of the expected schema, load itself fails, the publish call     *)
(* aborts there, and the file is left as it was.                           *)
(* Refuted: load_episodes checks nothing but that the text is JSON.  JSON  *)
(* that is not a list, or a list with a record lacking "pubdate_iso",      *)
(* fails later in step 7 (append, sort); a list whose records have         *)
(* "pubdate_iso" but not the other fields is loaded, extended and written  *)
(* back by step 7 before render_feed_xml or the cleanup loop raises.       *)
(***************************************************************************)
C16_MalformedCatalogRejectedByLoad ==
    \A p \in Single :
        LET c == call[p]
        IN  /\ (c.pc \in AfterCatalogSave /\ ~c.pre.episodes_json.exists) =>
                  c.items = <<NewRecord(c)>>
            /\ (c.pc # "idle" /\ Malformed(c.pre.episodes_json)) =>
                  /\ c.pc \notin AfterCatalogSave
                  /\ episodes_json = c.pre.episodes_json
                  /\ c.pc = "failed" =>
                        c.err \notin {"AttributeError", "KeyError"}

(***************************************************************************)
(* C17.  Feed and catalog agree: after every successful publish call, the  *)
(* items of the uploaded feed.xml are, one for one and in the same order,  *)
(* the records of the persisted catalog, each item carrying its record's   *)
(* guid, audio key and byte length; the feed has no item for a record that *)
(* is not in the persisted catalog.                                        *)
(***************************************************************************)
C17_FeedAgreesWithCatalog ==
    \A p \in Single :
        Published(p) =>
            /\ FEED_KEY \in DOMAIN store
            /\ Len(store[FEED_KEY]) = Len(Persisted)
            /\ \A i \in 1..Len(Persisted) :
                  /\ store[FEED_KEY][i].guid = Persisted[i].guid
                  /\ store[FEED_KEY][i].enclosure = Persisted[i].mp3_key
                  /\ store[FEED_KEY][i].length = Persisted[i].mp3_length_bytes

\* C17's case: a publish that evicted a record has completed, with two
\* records of different papers persisted and in the feed
C17_Witness ==
    /\ Published(1)
    /\ OpsOf(call[1].ops, "delete") # {}
    /\ Len(Persisted) = 2
    /\ Len(store[FEED_KEY]) = 2
    /\ Persisted[1].guid[1] # Persisted[2].guid[1]

(***************************************************************************)
(* C18.  Recorded audio length: the mp3_length_bytes of the record a       *)
(* publish call appends equals the byte length of the object the same call *)
(* uploaded to that record's mp3_key.                                      *)
(***************************************************************************)
C18_RecordedAudioLength ==
    \A p \in Single :
        LET c == call[p]
        IN  /\ \A i \in OpsOf(c.ops, "put") :
                  c.ops[i].key = c.mp3_key =>
                      c.ops[i].data = NewRecord(c).mp3_length_bytes
            /\ c.pc \in AfterCatalogSave =>
                  /\ CountOps(c.ops, "put", c.mp3_key) = 1
                  /\ \E k \in 1..Len(c.items) :
                        /\ c.items[k] = NewRecord(c)
                        /\ \A i \in OpsOf(c.ops, "put") :
                              c.ops[i].key = c.items[k].mp3_key =>
                                  c.items[k].mp3_length_bytes = c.ops[i].data

\* C18's case: a call that tagged its MP3 has completed, its record is in
\* the persisted catalog and the object it uploaded is in the store, over a
\* tagged copy an earlier call left in OUT_TMP
C18_Witness ==
    /\ Published(1)
    /\ call[1].tagged
    /\ call[1].slug \in DOMAIN call[1].pre.out_tmp
    /\ NewRecord(call[1]) \in Records(Persisted)
    /\ call[1].mp3_key \in DOMAIN store
    /\ store[call[1].mp3_key] = NewRecord(call[1]).mp3_length_bytes

\* the title has no letter and no digit: slugify reduces it to nothing
ReducesToNothing(title) ==
    \A i \in 1..Len(title) : title[i] \notin WordChars \ {"_"}

\* s is not empty, neither starts nor ends with a hyphen, is no longer than
\* max_len and has its characters in allowed
SlugShape(s, allowed) ==
    /\ s # <<>>
    /\ \A i \in 1..Len(s) : s[i] \in allowed
    /\ s[1] # "-"
    /\ s[Len(s)] # "-"
    /\ Len(s) <= SLUG_MAX_LEN

\* the part of C19 that holds: the slug is made of hyphens and of word
\* characters other than the underscore and the ASCII capitals
C19_SlugOfWordCharacters ==
    \A p \in Single :
        call[p].pc = "mp3" =>
            /\ SlugShape(call[p].slug,
                         (WordChars \ (UpperLetters \cup {"_"})) \cup {"-"})
            /\ ReducesToNothing(call[p].title) =>
                  call[p].slug = <<"e", "p", "i", "s", "o", "d", "e">>

(***************************************************************************)
(* C19.  Slug safety: for every title, slugify returns a non-empty string  *)
(* of lowercase letters, digits and hyphens only, without leading or       *)
(* trailing hyphen, of length at most 120, and "episode" when the title is *)
(* empty or reduces to nothing.                                            *)
(* Refuted: the pattern \w and str.lower() work on Unicode, so a letter    *)
(* without a lower-case form stays in the slug as it is; the rest holds    *)
(* (C19_SlugOfWordCharacters).                                             *)
(***************************************************************************)
C19_SlugSafety ==
    \A p \in Single :
        call[p].pc = "mp3" =>
            /\ SlugShape(call[p].slug, LowerLetters \cup Digits \cup {"-"})
            /\ ReducesToNothing(call[p].title) =>
                  call[p].slug = <<"e", "p", "i", "s", "o", "d", "e">>

\* the records of items published at time t, in their order in items
PublishedAtTime(items, t) == SelectSeq(items, LAMBDA e : PublishedAt(e) = t)

\* the list step 7 of call c sorted: the loaded catalog, the new record last
BeforeSort(c) ==
    Append(IF c.pre.episodes_json.exists THEN c.pre.episodes_json.items ELSE <<>>,
           NewRecord(c))

(***************************************************************************)
(* C21.  Stable descending sort: the sort of step 7 leaves records with    *)
(* equal publish timestamps in the relative order they had before it, so a *)
(* newly appended record that ties with existing records comes after them. *)
(***************************************************************************)
C21_StableSort ==
    \A p \in Single :
        LET c == call[p]
        IN  c.pc \in AfterCatalogSave =>
                /\ \A t \in Times :
                      PublishedAtTime(c.items, t) = PublishedAtTime(BeforeSort(c), t)
                /\ LET ties == PublishedAtTime(c.items, c.now)
                   IN  /\ ties # <<>>
                       /\ ties[Len(ties)] = NewRecord(c)
                       /\ SubSeq(ties, 1, Len(ties) - 1) =
                             PublishedAtTime(SubSeq(BeforeSort(c), 1,
                                                    Len(BeforeSort(c)) - 1), c.now)

\* C21's case: the new record ties with a record of another paper, the
\* catalog is sorted and both are kept
C21_Witness ==
    /\ Published(1)
    /\ Len(call[1].items) >= 2
    /\ \E i \in 1..Len(call[1].items) :
          /\ call[1].items[i] # NewRecord(call[1])
          /\ PaperOf(call[1].items[i]) # call[1].arxiv
          /\ PublishedAt(call[1].items[i]) = call[1].now
    /\ NewRecord(call[1]) \in Records(Persisted)

\* the step from c to d has logged that the probe answered True
AnsweredTrue(c, d) ==
    /\ Len(d.ops) = Len(c.ops) + 1
    /\ d.ops[Len(d.ops)].op = "head"

PutsOf(ops, key) == {i \in OpsOf(ops, "put") : ops[i].key = key}

(***************************************************************************)
(* C23.  Step ordering within one publish call: the audio and the page of  *)
(* the new episode are uploaded before feed.xml is, feed.xml is rendered   *)
(* from the kept list only, no delete of an evicted key is issued before   *)
(* the upload of feed.xml has completed, and the truncated catalog is      *)
(* persisted only after all the evictions.                                 *)
(***************************************************************************)
C23_StepOrdering ==
    \A p \in Single :
        LET c == call[p]
            ops == c.ops
            kept == Kept(c.items, c.keep)
            olds == EvictKeys(Evicted(c.items, c.keep))
        IN  /\ \A f \in PutsOf(ops, FEED_KEY) :
                  /\ \E a \in PutsOf(ops, c.mp3_key) : a < f
                  /\ \E g \in PutsOf(ops, c.episode_page_key) : g < f
                  /\ ops[f].data = render_feed_xml(kept)
                  /\ f > 1
                  /\ ops[f - 1] = Op("render", NoKey, kept)
            /\ \A d \in OpsOf(ops, "delete") :
                  \E f \in PutsOf(ops, FEED_KEY) : f < d
            /\ \A w \in OpsOf(ops, "save") :
                  (ops[w].data = kept /\ olds # <<>>) =>
                      /\ \A d \in OpsOf(ops, "delete") : d < w
                      /\ Cardinality(OpsOf(ops, "delete")) = Len(olds)
                      /\ \A i \in 1..Len(olds) :
                            \E d \in OpsOf(ops, "delete") : ops[d].key = olds[i]

\* C23's case: a call with a positive keep has uploaded audio, page and feed,
\* deleted the two objects of an evicted record and saved the kept list
C23_Witness ==
    /\ Published(1)
    /\ call[1].keep > 0
    /\ Cardinality(OpsOf(call[1].ops, "delete")) >= 2
    /\ call[1].ops[Len(call[1].ops)] =
          Op("save", NoKey, Kept(call[1].items, call[1].keep))

\* every call so far was made with the keep of call c: c is the first
\* call, or the second after a call with the same keep
FixedKeep(c) ==
    /\ calls <= 2
    /\ c.pc # "idle"
    /\ (c.prev.pc = "idle" \/ c.prev.keep = c.keep)

(***************************************************************************)
(* C24.  Durable catalog bound: with a fixed keep > 0 and a durable        *)
(* catalog that starts with at most keep records (here: empty), the        *)
(* durable catalog holds at most keep records in every reachable state,    *)
(* the points inside a publish call and the states after an aborted call   *)
(* included.                                                               *)
(***************************************************************************)
C24_DurableCatalogBound ==
    \A p \in Single :
        LET c == call[p]
        IN  (FixedKeep(c) /\ c.keep > 0) => Len(Persisted) <= c.keep

\* call c has succeeded, and so has every call before it, each with a
\* positive keep: c is the first call, or the second after a successful one
AllSucceeded(c) ==
    /\ calls <= 2
    /\ c.pc = "done"
    /\ c.keep > 0
    /\ (c.prev.pc = "idle" \/ (c.prev.pc = "done" /\ c.prev.keep > 0))

(***************************************************************************)
(* C25.  No dangling episode: after any sequence of successful publish     *)
(* calls by a single publisher, started from a catalog whose records have  *)
(* their objects in the store (here: the empty catalog), every record of   *)
(* the persisted catalog has its mp3_key and its episode_page_key present  *)
(* in the store, also when a title is published again and the older record *)
(* with the same slug is evicted.                                          *)
(***************************************************************************)
C25_NoDanglingEpisode ==
    \A p \in Single :
        AllSucceeded(call[p]) =>
            \A e \in Records(Persisted) :
                /\ e.mp3_key \in DOMAIN store
                /\ e.episode_page_key \in DOMAIN store

(***************************************************************************)
(* C26.  New episode is published: after every successful publish call    *)
(* with keep >= 1 the record the call created is in the persisted catalog  *)
(* and in the uploaded feed, and the call's eviction has deleted neither   *)
(* its audio nor its page, also when its timestamp ties with records of a  *)
(* catalog that is already at keep.                                        *)
(***************************************************************************)
C26_NewEpisodePublished ==
    \A p \in Single :
        LET c == call[p]
        IN  (Published(p) /\ c.keep >= 1) =>
                /\ NewRecord(c) \in Records(Persisted)
                /\ FeedItem(NewRecord(c)) \in Records(store[FEED_KEY])
                /\ CountOps(c.ops, "delete", c.mp3_key) = 0
                /\ CountOps(c.ops, "delete", c.episode_page_key) = 0

(***************************************************************************)
(* C27.  Slug idempotence: for every title t, slugify(slugify(t)) =        *)
(* slugify(t), also for titles longer than the 120-character limit and for *)
(* titles that reduce to the fallback "episode".                           *)
(***************************************************************************)
C27_SlugIdempotence ==
    \A p \in Single :
        call[p].pc = "mp3" =>
            slugify(call[p].slug, SLUG_MAX_LEN) = call[p].slug

\* C27's case: a title longer than the limit whose slug was cut at a hyphen,
\* which the cut has then stripped
C27_Witness ==
    /\ call[1].pc = "mp3"
    /\ Len(call[1].title) > SLUG_MAX_LEN
    /\ Len(call[1].slug) = SLUG_MAX_LEN - 1
    /\ call[1].title[SLUG_MAX_LEN] = "-"

====
